---- MODULE Spec2Model ----
(***************************************************************************)
(* Near-Earth objects and close approaches: the entity model (models.py),  *)
(* the two loaders (extract.py) and the two writers (write.py).            *)
(*                                                                         *)
(* Python values are tagged records, so that None, the empty string, the   *)
(* string 'None', zero and not-a-number are all different values.          *)
(* Floats are counted in units of 1/10000.                                 *)
(***************************************************************************)
EXTENDS Integers, Sequences, FiniteSets, TLC

VARIABLES
    pc,          \* "idle", or "done" while the last call's outcome is on hand
    op,          \* the operation last called
    arg,         \* its argument
    ret,         \* its outcome: the value returned or the exception raised
    approaches,  \* the CloseApproach objects of the database, in order
    neos,        \* the NearEarthObject objects of the database, by designation
    out_file     \* the file at the writers' destination

vars == <<pc, op, arg, ret, approaches, neos, out_file>>

dbVars == <<approaches, neos, out_file>>

-----------------------------------------------------------------------------
(* Bounds *)

MaxRows == 2

MaxRowLen == 4

MaxData == 2

MaxApproaches == 2

-----------------------------------------------------------------------------
(* Python values *)

None == [t |-> "None", s |-> "", n |-> 0]

Str(x) == [t |-> "str", s |-> x, n |-> 0]

Float(k) == [t |-> "float", s |-> "", n |-> k]

NaN == [t |-> "float", s |-> "nan", n |-> 0]

Bool(b) == [t |-> "bool", s |-> "", n |-> IF b THEN 1 ELSE 0]

isnan(v) == v = NaN

\* A reference to the NearEarthObject stored under designation d
Ref(d) == [t |-> "ref", s |-> d, n |-> 0]

Deref(r) == neos[r.s]

Ok(v) == [exc |-> "", val |-> v]

Raise(e) == [exc |-> e, val |-> None]

\* str(v), for the values passed as designation or name
py_str(v) ==
    CASE v.t = "str" -> v.s
      [] v.t = "None" -> "None"
      [] v.t = "bool" -> (IF v.n = 1 THEN "True" ELSE "False")
      [] OTHER -> "<float>"

\* bool(v): None, '', False and zero are falsy
py_bool(v) ==
    CASE v.t = "str" -> v.s # ""
      [] v.t = "None" -> FALSE
      [] v.t = "bool" -> v.n = 1
      [] OTHER -> (v = NaN \/ v.n # 0)

\* The decimal literals the inputs use, in units of 1/10000.
FloatLiteral ==
    [x \in {"0", "0.0", "1", "0.3", "0.30", "0.1921", "5.5", "16.2", "16.84"} |->
        CASE x = "0" -> 0
          [] x = "0.0" -> 0
          [] x = "1" -> 10000
          [] x = "0.3" -> 3000
          [] x = "0.30" -> 3000
          [] x = "0.1921" -> 1921
          [] x = "5.5" -> 55000
          [] x = "16.2" -> 162000
          [] x = "16.84" -> 168400]

\* float(v): a string is parsed ('nan' is a float literal), None is a TypeError
py_float(v) ==
    CASE v.t = "float" -> Ok(v)
      [] v.t = "bool" -> Ok(Float(v.n * 10000))
      [] v.t = "None" -> Raise("TypeError")
      [] OTHER -> IF v.s \in DOMAIN FloatLiteral THEN Ok(Float(FloatLiteral[v.s]))
                  ELSE IF v.s = "nan" THEN Ok(NaN)
                  ELSE Raise("ValueError")

\* info.get(key)
Get(info, key) == IF key \in DOMAIN info THEN info[key] ELSE None

-----------------------------------------------------------------------------
(* models.py: NearEarthObject *)

\* Mutant: the diameter is tested for truth, so that zero counts as missing.
NearEarthObject_falsy_diameter(info) ==
    IF "designation" \notin DOMAIN info THEN Raise("KeyError")
    ELSE IF "hazardous" \notin DOMAIN info THEN Raise("KeyError")
    ELSE LET raw_name == Get(info, "name")
             raw_diameter == Get(info, "diameter")
             diameter == IF ~py_bool(raw_diameter) THEN Ok(NaN)
                         ELSE py_float(raw_diameter)
         IN  IF diameter.exc # "" THEN Raise(diameter.exc)
             ELSE Ok([designation |-> py_str(info["designation"]),
                      hazardous |-> py_bool(info["hazardous"]),
                      name |-> IF py_bool(raw_name) THEN Str(py_str(raw_name)) ELSE None,
                      diameter |-> diameter.val,
                      approaches |-> <<>>])

\* Mutant: only a missing name becomes None, the empty string is kept.
NearEarthObject_keeps_empty_name(info) ==
    IF "designation" \notin DOMAIN info THEN Raise("KeyError")
    ELSE IF "hazardous" \notin DOMAIN info THEN Raise("KeyError")
    ELSE LET raw_name == Get(info, "name")
             raw_diameter == Get(info, "diameter")
             diameter == IF raw_diameter = Str("") \/ raw_diameter = None
                         THEN Ok(NaN)
                         ELSE py_float(raw_diameter)
         IN  IF diameter.exc # "" THEN Raise(diameter.exc)
             ELSE Ok([designation |-> py_str(info["designation"]),
                      hazardous |-> py_bool(info["hazardous"]),
                      name |-> IF raw_name # None THEN Str(py_str(raw_name)) ELSE None,
                      diameter |-> diameter.val,
                      approaches |-> <<>>])

NearEarthObject(info) ==
    IF "designation" \notin DOMAIN info THEN Raise("KeyError")
    ELSE IF "hazardous" \notin DOMAIN info THEN Raise("KeyError")
    ELSE LET raw_name == Get(info, "name")
             raw_diameter == Get(info, "diameter")
             diameter == IF raw_diameter = Str("") \/ raw_diameter = None
                         THEN Ok(NaN)
                         ELSE py_float(raw_diameter)
         IN  IF diameter.exc # "" THEN Raise(diameter.exc)
             ELSE Ok([designation |-> py_str(info["designation"]),
                      hazardous |-> py_bool(info["hazardous"]),
                      name |-> IF py_bool(raw_name) THEN Str(py_str(raw_name)) ELSE None,
                      diameter |-> diameter.val,
                      approaches |-> <<>>])

fullname(neo) ==
    IF neo.name = None THEN <<neo.designation>>
    ELSE <<neo.designation, " (", neo.name.s, ")">>

NearEarthObject_serialize(neo) ==
    [designation |-> Str(neo.designation),
     name |-> IF py_bool(neo.name) THEN neo.name ELSE Str(""),
     diameter_km |-> neo.diameter,
     potentially_hazardous |-> Bool(neo.hazardous)]

-----------------------------------------------------------------------------
(* helpers.py: the close-approach date formats *)

\* cd_to_datetime: 'YYYY-Mon-DD HH:MM' to a datetime <<year, month, day, hour, minute>>
cd_to_datetime(v) ==
    CASE v.t # "str" -> Raise("TypeError")
      [] v.s = "2020-Jan-01 06:00" -> Ok(<<2020, 1, 1, 6, 0>>)
      [] v.s = "1900-Dec-27 01:14" -> Ok(<<1900, 12, 27, 1, 14>>)
      [] OTHER -> Raise("ValueError")

Pad2(k) ==
    CASE k = 0 -> "00" [] k = 1 -> "01" [] k = 6 -> "06" [] k = 12 -> "12"
      [] k = 14 -> "14" [] k = 27 -> "27" [] OTHER -> "??"

Year4(k) == CASE k = 2020 -> "2020" [] k = 1900 -> "1900" [] OTHER -> "????"

\* datetime_to_str: 'YYYY-MM-DD HH:MM'
datetime_to_str(dt) ==
    <<Year4(dt[1]), "-", Pad2(dt[2]), "-", Pad2(dt[3]), " ", Pad2(dt[4]), ":", Pad2(dt[5])>>

-----------------------------------------------------------------------------
(* models.py: CloseApproach *)

CloseApproach(info) ==
    IF "designation" \notin DOMAIN info \/ "time" \notin DOMAIN info THEN Raise("KeyError")
    ELSE LET time == cd_to_datetime(info["time"])
         IN  IF time.exc # "" THEN Raise(time.exc)
             ELSE IF "distance" \notin DOMAIN info THEN Raise("KeyError")
             ELSE LET distance == py_float(info["distance"])
                  IN  IF distance.exc # "" THEN Raise(distance.exc)
                      ELSE IF "velocity" \notin DOMAIN info THEN Raise("KeyError")
                      ELSE LET velocity == py_float(info["velocity"])
                           IN  IF velocity.exc # "" THEN Raise(velocity.exc)
                               ELSE Ok([_designation |-> py_str(info["designation"]),
                                        time |-> time.val,
                                        distance |-> distance.val,
                                        velocity |-> velocity.val,
                                        neo |-> None])

time_str(ca) == datetime_to_str(ca.time)

\* '{x:.2f}': two decimals, from units of 1/10000
Format2f(v) == IF isnan(v) THEN <<"nan">> ELSE <<"%.2f", (v.n + 50) \div 100>>

\* Mutant: the description never looks at neo.
neo_string_unlinked(ca) == <<"the object ", ca._designation>>

\* CloseApproach.__str__, as the sequence of the pieces it concatenates
neo_string(ca) ==
    IF ca.neo = None THEN <<"the object ", ca._designation>>
    ELSE fullname(Deref(ca.neo))

CloseApproach_str(ca) ==
    <<"At ">> \o time_str(ca) \o <<", ">> \o neo_string(ca)
        \o <<" approaches Earth at a distance of ">> \o Format2f(ca.distance)
        \o <<" au with a velocity of ">> \o Format2f(ca.velocity) \o <<" km/s.">>

CloseApproach_serialize(ca) ==
    [datetime_utc |-> time_str(ca),
     distance_au |-> ca.distance,
     velocity_km_s |-> ca.velocity]

-----------------------------------------------------------------------------
(* extract.py *)

Loaded(v) == [exc |-> "", val |-> v, built |-> Len(v)]

Failed(e, k) == [exc |-> e, val |-> None, built |-> k]

Last(S) == CHOOSE i \in S : \A j \in S : j <= i

\* csv.DictReader: one dict per row, keyed by the header; a short row leaves the
\* remaining keys at restval None, the cells beyond the header are set aside.
DictReader(header, row) ==
    [k \in {header[i] : i \in DOMAIN header} |->
        LET i == Last({j \in DOMAIN header : header[j] = k})
        IN  IF i <= Len(row) THEN Str(row[i]) ELSE None]

\* Mutant: the designation is read with neo.get('pdes'), so that a missing column
\* gives None.
RECURSIVE load_neos_rows_get_pdes(_, _, _)
load_neos_rows_get_pdes(header, rows, acc) ==
    IF rows = <<>> THEN Loaded(acc)
    ELSE IF Head(rows) = <<>> THEN load_neos_rows_get_pdes(header, Tail(rows), acc)
    ELSE LET neo == DictReader(header, Head(rows))
         IN  IF {"pha", "name", "diameter"} \ DOMAIN neo # {}
             THEN Failed("KeyError", Len(acc))
             ELSE LET is_hazardous == neo["pha"] = Str("Y")
                      made == NearEarthObject(
                                  [designation |-> Get(neo, "pdes"), name |-> neo["name"],
                                   diameter |-> neo["diameter"],
                                   hazardous |-> Bool(is_hazardous)])
                  IN  IF made.exc # "" THEN Failed(made.exc, Len(acc))
                      ELSE load_neos_rows_get_pdes(header, Tail(rows),
                                                   Append(acc, made.val))

RECURSIVE load_neos_rows(_, _, _)
load_neos_rows(header, rows, acc) ==
    IF rows = <<>> THEN Loaded(acc)
    ELSE IF Head(rows) = <<>> THEN load_neos_rows(header, Tail(rows), acc)
    ELSE LET neo == DictReader(header, Head(rows))
         IN  IF {"pha", "pdes", "name", "diameter"} \ DOMAIN neo # {}
             THEN Failed("KeyError", Len(acc))
             ELSE LET is_hazardous == neo["pha"] = Str("Y")
                      made == NearEarthObject(
                                  [designation |-> neo["pdes"], name |-> neo["name"],
                                   diameter |-> neo["diameter"],
                                   hazardous |-> Bool(is_hazardous)])
                  IN  IF made.exc # "" THEN Failed(made.exc, Len(acc))
                      ELSE load_neos_rows(header, Tail(rows), Append(acc, made.val))

load_neos(source) == load_neos_rows(source.header, source.rows, <<>>)

\* list.index(x): the first position of x, counted from 1; 0 stands for ValueError
index(list, x) ==
    IF \E i \in DOMAIN list : list[i] = x
    THEN CHOOSE i \in DOMAIN list : list[i] = x /\ \A j \in 1..(i - 1) : list[j] # x
    ELSE 0

desired_fields == <<"des", "cd", "dist", "v_rel">>

RECURSIVE load_approaches_rows(_, _, _)
load_approaches_rows(idx, cad_data, acc) ==
    IF cad_data = <<>> THEN Loaded(acc)
    ELSE LET cad == Head(cad_data)
         IN  IF \E f \in DOMAIN idx : idx[f] > Len(cad)
             THEN Failed("IndexError", Len(acc))
             ELSE LET made == CloseApproach(
                                  [designation |-> cad[idx["des"]], time |-> cad[idx["cd"]],
                                   distance |-> cad[idx["dist"]],
                                   velocity |-> cad[idx["v_rel"]]])
                  IN  IF made.exc # "" THEN Failed(made.exc, Len(acc))
                      ELSE load_approaches_rows(idx, Tail(cad_data), Append(acc, made.val))

\* Mutant: the fields are looked up inside the loop over the rows.
load_approaches_lazy_lookup(cad_json) ==
    LET cad_fields == cad_json.fields
        cad_data == cad_json.data
        idx == [f \in {desired_fields[i] : i \in DOMAIN desired_fields} |->
                   index(cad_fields, f)]
    IN  IF cad_data = <<>> THEN Loaded(<<>>)
        ELSE IF \E f \in DOMAIN idx : idx[f] = 0 THEN Failed("ValueError", 0)
        ELSE load_approaches_rows(idx, cad_data, <<>>)

\* Mutant: the four fields are taken to be the first four columns.
load_approaches_positional(cad_json) ==
    LET cad_fields == cad_json.fields
        cad_data == cad_json.data
        idx == [f \in {desired_fields[i] : i \in DOMAIN desired_fields} |->
                   index(desired_fields, f)]
    IN  IF \E f \in DOMAIN idx : index(cad_fields, f) = 0 THEN Failed("ValueError", 0)
        ELSE load_approaches_rows(idx, cad_data, <<>>)

load_approaches(cad_json) ==
    LET cad_fields == cad_json.fields
        cad_data == cad_json.data
        idx == [f \in {desired_fields[i] : i \in DOMAIN desired_fields} |->
                   index(cad_fields, f)]
    IN  IF \E f \in DOMAIN idx : idx[f] = 0 THEN Failed("ValueError", 0)
        ELSE load_approaches_rows(idx, cad_data, <<>>)

-----------------------------------------------------------------------------
(* write.py *)

fieldnames ==
    <<"datetime_utc", "distance_au", "velocity_km_s",
      "designation", "name", "diameter_km", "potentially_hazardous">>

\* for key, value in neo_dict.items(): approach_dict[key] = value
Merge(approach_dict, neo_dict) ==
    [key \in DOMAIN approach_dict \cup DOMAIN neo_dict |->
        IF key \in DOMAIN neo_dict THEN neo_dict[key] ELSE approach_dict[key]]

\* csv.DictWriter.writerow: the values in fieldnames order, '' for a missing key
writerow(rowdict) ==
    [i \in DOMAIN fieldnames |->
        IF fieldnames[i] \in DOMAIN rowdict THEN rowdict[fieldnames[i]] ELSE Str("")]

NoFile == [kind |-> "", lines |-> <<>>, dumped |-> FALSE, doc |-> <<>>]

CsvFile(lines) == [kind |-> "csv", lines |-> lines, dumped |-> FALSE, doc |-> <<>>]

JsonFile(dumped, doc) == [kind |-> "json", lines |-> <<>>, dumped |-> dumped, doc |-> doc]

\* Mutant: an approach without neo is skipped.
RECURSIVE write_to_csv_rows_skipping(_, _)
write_to_csv_rows_skipping(results, lines) ==
    IF results = <<>> THEN [exc |-> "", file |-> CsvFile(lines)]
    ELSE LET ca == approaches[Head(results)]
             approach_dict == CloseApproach_serialize(ca)
         IN  IF ca.neo = None THEN write_to_csv_rows_skipping(Tail(results), lines)
             ELSE LET rowdict == Merge(approach_dict, NearEarthObject_serialize(Deref(ca.neo)))
                  IN  IF DOMAIN rowdict \ {fieldnames[i] : i \in DOMAIN fieldnames} # {}
                      THEN [exc |-> "ValueError", file |-> CsvFile(lines)]
                      ELSE write_to_csv_rows_skipping(Tail(results),
                                                      Append(lines, writerow(rowdict)))

\* Mutant: each row is put right after the header, above the rows written before.
RECURSIVE write_to_csv_rows_newest_first(_, _)
write_to_csv_rows_newest_first(results, lines) ==
    IF results = <<>> THEN [exc |-> "", file |-> CsvFile(lines)]
    ELSE LET ca == approaches[Head(results)]
             approach_dict == CloseApproach_serialize(ca)
         IN  IF ca.neo = None THEN [exc |-> "AttributeError", file |-> CsvFile(lines)]
             ELSE LET rowdict == Merge(approach_dict, NearEarthObject_serialize(Deref(ca.neo)))
                  IN  IF DOMAIN rowdict \ {fieldnames[i] : i \in DOMAIN fieldnames} # {}
                      THEN [exc |-> "ValueError", file |-> CsvFile(lines)]
                      ELSE write_to_csv_rows_newest_first(Tail(results),
                               <<Head(lines), writerow(rowdict)>> \o Tail(lines))

\* The loop of write_to_csv: the outcome and the lines in the file when it ends
RECURSIVE write_to_csv_rows(_, _)
write_to_csv_rows(results, lines) ==
    IF results = <<>> THEN [exc |-> "", file |-> CsvFile(lines)]
    ELSE LET ca == approaches[Head(results)]
             approach_dict == CloseApproach_serialize(ca)
         IN  IF ca.neo = None THEN [exc |-> "AttributeError", file |-> CsvFile(lines)]
             ELSE LET rowdict == Merge(approach_dict, NearEarthObject_serialize(Deref(ca.neo)))
                  IN  IF DOMAIN rowdict \ {fieldnames[i] : i \in DOMAIN fieldnames} # {}
                      THEN [exc |-> "ValueError", file |-> CsvFile(lines)]
                      ELSE write_to_csv_rows(Tail(results), Append(lines, writerow(rowdict)))

write_to_csv(results) == write_to_csv_rows(results, <<fieldnames>>)

\* The loop of write_to_json: the file is opened (and emptied) first, the output
\* list is dumped only after the loop
RECURSIVE write_to_json_rows(_, _)
write_to_json_rows(results, output) ==
    IF results = <<>> THEN [exc |-> "", file |-> JsonFile(TRUE, output)]
    ELSE LET ca == approaches[Head(results)]
             data == CloseApproach_serialize(ca)
         IN  IF ca.neo = None THEN [exc |-> "AttributeError", file |-> JsonFile(FALSE, <<>>)]
             ELSE write_to_json_rows(Tail(results),
                      Append(output, [datetime_utc |-> data.datetime_utc,
                                      distance_au |-> data.distance_au,
                                      velocity_km_s |-> data.velocity_km_s,
                                      neo |-> NearEarthObject_serialize(Deref(ca.neo))]))

write_to_json(results) == write_to_json_rows(results, <<>>)

-----------------------------------------------------------------------------
(* Calls of the constructors and loaders: one call at a time, from idle. *)

\* The keyword arguments a caller may pass to NearEarthObject.
Designations == {None, Str(""), Str("433")}

Hazards == {Bool(TRUE), Bool(FALSE)}

Names == {None, Str(""), Str("Eros")}

Diameters ==
    {None, Str(""), Str("0"), Str("0.0"), Str("16.84"), Str("nan"), Str("km"), Float(0), NaN}

Restrict(f, K) == [k \in K |-> f[k]]

NeoInfos ==
    { Restrict(f, K) :
        f \in [designation : Designations, hazardous : Hazards,
               name : Names, diameter : Diameters],
        K \in SUBSET {"designation", "hazardous", "name", "diameter"} }

Construct ==
    /\ pc = "idle"
    /\ \E info \in NeoInfos :
          /\ op' = "NearEarthObject"
          /\ arg' = info
          /\ ret' = NearEarthObject(info)
    /\ pc' = "done"
    /\ UNCHANGED dbVars

\* The tabular sources: a header and up to MaxRows rows of up to MaxRowLen cells.
Headers ==
    { <<"pdes", "name", "diameter", "pha">>,
      <<"pha", "diameter", "name", "pdes">>,
      <<"name", "diameter", "pha">>,
      <<"pdes", "name", "diameter">> }

Cells == {"", "Y"}

SeqsUpTo(S, n) == UNION { [1..k -> S] : k \in 0..n }

CsvRows == SeqsUpTo(Cells, MaxRowLen)

CsvSources == [header : Headers, rows : SeqsUpTo(CsvRows, MaxRows)]

LoadNeos ==
    /\ pc = "idle"
    /\ \E source \in CsvSources :
          /\ op' = "load_neos"
          /\ arg' = source
          /\ ret' = load_neos(source)
    /\ pc' = "done"
    /\ UNCHANGED dbVars

\* The structured sources: a list of distinct field names and up to MaxData rows,
\* each row holding one value per field.
FieldNames == {"des", "cd", "dist", "v_rel", "extra"}

Injective(f) == \A i, j \in DOMAIN f : f[i] = f[j] => i = j

Schemas == {f \in SeqsUpTo(FieldNames, Cardinality(FieldNames)) : Injective(f)}

FieldValues ==
    [des |-> {"433", "2015 AB"}, cd |-> {"2020-Jan-01 06:00"},
     dist |-> {"0.3", "0.1921"}, v_rel |-> {"5.5"}, extra |-> {"ignored", "16.2"}]

CadRecords == [des : FieldValues.des, cd : FieldValues.cd, dist : FieldValues.dist,
               v_rel : FieldValues.v_rel, extra : FieldValues.extra]

CadRows(fields) == {[i \in DOMAIN fields |-> Str(r[fields[i]])] : r \in CadRecords}

LoadApproaches ==
    /\ pc = "idle"
    /\ \E fields \in Schemas :
          \E data \in SeqsUpTo(CadRows(fields), MaxData) :
             /\ op' = "load_approaches"
             /\ arg' = [fields |-> fields, data |-> data]
             /\ ret' = load_approaches(arg')
    /\ pc' = "done"
    /\ UNCHANGED dbVars

-----------------------------------------------------------------------------
(* The database and the writers *)

\* The objects of the database, as NearEarthObject builds them.
CatalogInfos ==
    { [designation |-> Str("433"), name |-> Str("Eros"),
       diameter |-> Str("16.84"), hazardous |-> Bool(FALSE)],
      [designation |-> Str("2015 AB"), name |-> Str(""),
       diameter |-> Str(""), hazardous |-> Bool(TRUE)] }

Catalog ==
    [d \in {py_str(info.designation) : info \in CatalogInfos} |->
        NearEarthObject(CHOOSE info \in CatalogInfos : py_str(info.designation) = d).val]

ApproachInfos ==
    [designation : {Str("433"), Str("2015 AB")}, time : {Str("2020-Jan-01 06:00")},
     distance : {Str("0.1921"), Str("0.3")}, velocity : {Str("16.2")}]

\* A close approach is constructed and joins the database, not yet linked.
NewApproach ==
    /\ pc = "idle"
    /\ Len(approaches) < MaxApproaches
    /\ \E info \in ApproachInfos :
          /\ op' = "CloseApproach"
          /\ arg' = info
          /\ ret' = CloseApproach(info)
          /\ approaches' = IF ret'.exc = "" THEN Append(approaches, ret'.val)
                           ELSE approaches
    /\ pc' = "done"
    /\ UNCHANGED <<neos, out_file>>

\* The database links one approach to the object of its designation.
Link ==
    /\ pc = "idle"
    /\ \E i \in DOMAIN approaches :
          /\ approaches[i].neo = None
          /\ approaches[i]._designation \in DOMAIN neos
          /\ op' = "link"
          /\ arg' = i
          /\ approaches' = [approaches EXCEPT ![i].neo = Ref(approaches[i]._designation)]
          /\ neos' = [neos EXCEPT ![approaches[i]._designation].approaches = Append(@, i)]
    /\ ret' = Ok(None)
    /\ pc' = "done"
    /\ UNCHANGED out_file

\* The streams of results a caller may pass: approaches of the database, each at
\* most once, in any order.
Results == {r \in SeqsUpTo(DOMAIN approaches, Len(approaches)) : Injective(r)}

WriteToCsv ==
    /\ pc = "idle"
    /\ \E results \in Results :
          /\ op' = "write_to_csv"
          /\ arg' = results
          /\ ret' = Raise(write_to_csv(results).exc)
          /\ out_file' = write_to_csv(results).file
    /\ pc' = "done"
    /\ UNCHANGED <<approaches, neos>>

WriteToJson ==
    /\ pc = "idle"
    /\ \E results \in Results :
          /\ op' = "write_to_json"
          /\ arg' = results
          /\ ret' = Raise(write_to_json(results).exc)
          /\ out_file' = write_to_json(results).file
    /\ pc' = "done"
    /\ UNCHANGED <<approaches, neos>>

Return ==
    /\ pc = "done"
    /\ pc' = "idle"
    /\ op' = ""
    /\ arg' = <<>>
    /\ ret' = Ok(None)
    /\ UNCHANGED dbVars

Init ==
    /\ pc = "idle"
    /\ op = ""
    /\ arg = <<>>
    /\ ret = Ok(None)
    /\ approaches = <<>>
    /\ neos = Catalog
    /\ out_file = NoFile

Next == Construct \/ LoadNeos \/ LoadApproaches \/ Return

Spec == Init /\ [][Next]_vars

NextWrite == NewApproach \/ Link \/ WriteToCsv \/ WriteToJson \/ Return

SpecWrite == Init /\ [][NextWrite]_vars

-----------------------------------------------------------------------------
(* Properties.  The code defines no exception classes of its own: a failure   *)
(* is the built-in exception that propagates out of the call (KeyError for a  *)
(* missing key, ValueError for a failed conversion or list.index,             *)
(* AttributeError for dereferencing an absent neo).                           *)

Failure(r) == r.exc # ""

Called(name) == pc = "done" /\ op = name

Range(f) == {f[i] : i \in DOMAIN f}

\* The positions of a results stream whose approach has no neo
Unlinked(results) == {k \in DOMAIN results : approaches[results[k]].neo = None}

First(S) == CHOOSE i \in S : \A j \in S : i <= j

\* The row of the tabular output for one linked approach: the three fields of the
\* approach, then the four fields of its object
TabularRow(ca) ==
    LET neo == neos[ca.neo.s]
    IN  <<datetime_to_str(ca.time), ca.distance, ca.velocity,
          Str(neo.designation), IF neo.name = None THEN Str("") ELSE neo.name,
          neo.diameter, Bool(neo.hazardous)>>

\* C1: a writer given a stream that contains an approach without neo raises the
\* dereference failure, writes a record for no approach at or after the first
\* unlinked one, and substitutes no placeholder: the tabular file holds the header
\* and the rows of the approaches before it, the structured file is left empty.
C1_UnlinkedApproachFailsTheWrite ==
    (pc = "done" /\ op \in {"write_to_csv", "write_to_json"} /\ Unlinked(arg) # {}) =>
        LET first == First(Unlinked(arg))
        IN  /\ ret.exc = "AttributeError"
            /\ op = "write_to_csv" =>
                  /\ out_file.kind = "csv"
                  /\ Len(out_file.lines) = first
                  /\ \A k \in 1..(first - 1) :
                        out_file.lines[k + 1] = TabularRow(approaches[arg[k]])
            /\ op = "write_to_json" =>
                  /\ out_file.kind = "json"
                  /\ ~out_file.dumped
                  /\ out_file.doc = <<>>

C1_Witness ==
    /\ Called("write_to_csv")
    /\ Len(arg) = 2
    /\ Unlinked(arg) = {2}
    /\ ret.exc = "AttributeError"
    /\ Len(out_file.lines) = 2

\* A non-blank data row of a tabular source
DataRows(source) == {i \in DOMAIN source.rows : source.rows[i] # <<>>}

\* C2 (as stated): a tabular source whose header lacks pdes never loads, whatever
\* its number of data rows.
C2_MissingPdesAlwaysFails ==
    (Called("load_neos") /\ "pdes" \notin Range(arg.header)) => Failure(ret)

\* C2 (amended): a tabular source whose header lacks pdes fails at its first data
\* row, with KeyError and before any object is built; without data rows the load
\* returns the empty list.
C2_MissingPdesFailsAtFirstRow ==
    (Called("load_neos") /\ "pdes" \notin Range(arg.header)) =>
        IF DataRows(arg) # {}
        THEN ret.exc = "KeyError" /\ ret.built = 0 /\ ret.val = None
        ELSE ret.exc = "" /\ ret.val = <<>>

C2_Witness ==
    /\ Called("load_neos")
    /\ "pdes" \notin Range(arg.header)
    /\ Cardinality(DataRows(arg)) = 2
    /\ ret.exc = "KeyError"

\* The cell of a data row under a column, absent when the row is too short
Cell(source, i, column) ==
    LET p == index(source.header, column)
    IN  IF p = 0 \/ p > Len(source.rows[i]) THEN None ELSE Str(source.rows[i][p])

\* C3: a load is fail-fast: when a data row lacks the designation or the hazardous
\* flag (the row is shorter than the header), the load fails and returns no list.
C3_RowMissingRequiredFieldFailsLoad ==
    (Called("load_neos")
        /\ \E i \in DataRows(arg) :
              Cell(arg, i, "pdes") = None \/ Cell(arg, i, "pha") = None)
    => Failure(ret)

\* C4: the constructor fails when the designation is absent or the empty string,
\* so that every constructed object has a non-empty designation.
C4_EmptyDesignationRejected ==
    Called("NearEarthObject") =>
        /\ ("designation" \notin DOMAIN arg \/ arg.designation = Str(""))
              => Failure(ret)
        /\ ~Failure(ret) => ret.val.designation # ""

\* C5: a schema that lacks one of des, cd, dist, v_rel fails the load with
\* ValueError while the schema is resolved: no row has been turned into a
\* CloseApproach, and the load fails also when there are no rows.
C5_MissingFieldFailsBeforeRows ==
    (Called("load_approaches") /\ Range(desired_fields) \ Range(arg.fields) # {}) =>
        /\ ret.exc = "ValueError"
        /\ ret.built = 0
        /\ ret.val = None

C5_Witness ==
    /\ Called("load_approaches")
    /\ Range(desired_fields) \ Range(arg.fields) = {"v_rel"}
    /\ arg.data = <<>>
    /\ ret.exc = "ValueError"

\* The position of a field in a schema without repeated names
Position(fields, f) == CHOOSE p \in DOMAIN fields : fields[p] = f

\* C6: when the schema holds des, cd, dist and v_rel, at any positions and among
\* any extra fields, the load returns one CloseApproach per row, in row order,
\* built from the row's values at the positions of these four fields.
C6_FieldsResolvedByName ==
    (Called("load_approaches") /\ Range(desired_fields) \subseteq Range(arg.fields)) =>
        /\ ret.exc = ""
        /\ Len(ret.val) = Len(arg.data)
        /\ \A i \in DOMAIN arg.data :
              LET row == arg.data[i]
                  ca == ret.val[i]
              IN  /\ ca._designation = row[Position(arg.fields, "des")].s
                  /\ ca.time = cd_to_datetime(row[Position(arg.fields, "cd")]).val
                  /\ ca.distance = py_float(row[Position(arg.fields, "dist")]).val
                  /\ ca.velocity = py_float(row[Position(arg.fields, "v_rel")]).val
                  /\ ca.neo = None
        /\ (arg = [fields |-> <<"des", "cd", "dist", "v_rel", "extra">>,
                   data |-> << <<Str("2015 AB"), Str("2020-Jan-01 06:00"), Str("0.3"),
                                 Str("5.5"), Str("ignored")>> >>])
              => ret.val = << [_designation |-> "2015 AB", time |-> <<2020, 1, 1, 6, 0>>,
                               distance |-> Float(3000), velocity |-> Float(55000),
                               neo |-> None] >>

C6_Witness ==
    /\ Called("load_approaches")
    /\ arg.fields = <<"extra", "v_rel", "dist", "cd", "des">>
    /\ Len(arg.data) = 2
    /\ arg.data[1] # arg.data[2]
    /\ ret.exc = ""
    /\ ret.val[1]._designation = "2015 AB"
    /\ ret.val[2].distance = Float(1921)
\* The source value of an optional field of a constructor call
Raw(key) == IF key \in DOMAIN arg THEN arg[key] ELSE None

Zero(v) == v \in {Str("0"), Str("0.0"), Float(0)}

NameNormalized(neo, designation, name, hazardous) ==
    LET out == NearEarthObject_serialize(neo)
    IN  /\ neo.name # Str("")
        /\ neo.name = None \/ (neo.name.t = "str" /\ neo.name.s # "")
        /\ neo.name = None <=> name \in {None, Str("")}
        /\ neo.name # None => neo.name = name
        /\ out.name = Str("") <=> neo.name = None
        /\ out.name # Str("") => out.name = neo.name
        /\ designation.t = "str" => out.designation = designation
        /\ out.potentially_hazardous = hazardous

\* C8: the name of a constructed object is absent or a non-empty string, absent
\* exactly when the source name is missing or empty; serialize gives the empty
\* string exactly for the absent name and the stored name otherwise, and gives
\* back the designation and the hazardous flag.
C8_NameAbsentOrNonEmpty ==
    /\ (Called("NearEarthObject") /\ ~Failure(ret)) =>
          NameNormalized(ret.val, arg.designation, Raw("name"), arg.hazardous)
    /\ (Called("load_neos") /\ ~Failure(ret)) =>
          /\ Len(ret.val) = Cardinality(DataRows(arg))
          /\ \A k \in DOMAIN ret.val :
                LET i == CHOOSE i \in DataRows(arg) :
                             Cardinality({j \in DataRows(arg) : j <= i}) = k
                IN  NameNormalized(ret.val[k], Cell(arg, i, "pdes"), Cell(arg, i, "name"),
                                   Bool(Cell(arg, i, "pha") = Str("Y")))

C8_Witness ==
    /\ Called("NearEarthObject")
    /\ "name" \in DOMAIN arg
    /\ arg.name = Str("")
    /\ ~Failure(ret)
    /\ ret.val.name = None
    /\ NearEarthObject_serialize(ret.val).name = Str("")
    /\ ret.val.designation = "433"

\* What C9 says of the sentence describing one approach
Described(ca) ==
    LET sentence(neo_part) ==
            <<"At ">> \o datetime_to_str(ca.time) \o <<", ">> \o neo_part
                \o <<" approaches Earth at a distance of ">> \o Format2f(ca.distance)
                \o <<" au with a velocity of ">> \o Format2f(ca.velocity) \o <<" km/s.">>
        fallback == <<"the object ", ca._designation>>
    IN  IF ca.neo = None
        THEN CloseApproach_str(ca) = sentence(fallback)
        ELSE LET neo == neos[ca.neo.s]
                 full == IF neo.name = None THEN <<neo.designation>>
                         ELSE <<neo.designation, " (", neo.name.s, ")">>
             IN  /\ CloseApproach_str(ca) = sentence(full)
                 /\ CloseApproach_str(ca) # sentence(fallback)

\* C9: an approach is constructed without neo and stays so until it is linked;
\* while neo is absent its description names "the object <designation>"; once neo
\* is set it stays set and the description names the object's full name, no longer
\* the fallback.
C9_DescribeFallsBackUntilLinked ==
    [][ /\ \A i \in DOMAIN approaches' :
              /\ Described(approaches[i])' 
              /\ i \notin DOMAIN approaches => approaches'[i].neo = None
              /\ (i \in DOMAIN approaches /\ approaches[i].neo # None)
                    => approaches'[i].neo = approaches[i].neo
              /\ (i \in DOMAIN approaches /\ approaches[i].neo = None
                    /\ approaches'[i].neo # None) => op' = "link"
        /\ DOMAIN approaches \subseteq DOMAIN approaches' ]_vars

C9_Witness ==
    /\ Len(approaches) = 2
    /\ approaches[1].neo = Ref("433")
    /\ approaches[2].neo = None
    /\ approaches[2]._designation = "433"
    /\ neo_string(approaches[1]) = <<"433", " (", "Eros", ")">>
    /\ neo_string(approaches[2]) = <<"the object ", "433">>

\* C10: for a stream of linked approaches the tabular file holds the header and
\* then one row per approach, in the order of the stream, each row the approach's
\* fields merged with its object's fields, the object's value standing under any
\* key both have.
C10_TabularOutputRows ==
    (Called("write_to_csv") /\ Unlinked(arg) = {}) =>
        /\ ret.exc = ""
        /\ out_file.kind = "csv"
        /\ Len(out_file.lines) = Len(arg) + 1
        /\ out_file.lines[1] = <<"datetime_utc", "distance_au", "velocity_km_s",
                                 "designation", "name", "diameter_km",
                                 "potentially_hazardous">>
        /\ \A k \in DOMAIN arg :
              LET ca == approaches[arg[k]]
                  mine == CloseApproach_serialize(ca)
                  its == NearEarthObject_serialize(neos[ca.neo.s])
              IN  /\ out_file.lines[k + 1] = TabularRow(ca)
                  /\ \A c \in DOMAIN out_file.lines[1] :
                        LET key == out_file.lines[1][c]
                        IN  out_file.lines[k + 1][c] =
                               IF key \in DOMAIN its THEN its[key] ELSE mine[key]

C10_Witness ==
    /\ Called("write_to_csv")
    /\ arg = <<2, 1>>
    /\ Unlinked(arg) = {}
    /\ Len(out_file.lines) = 3
    /\ out_file.lines[2] # out_file.lines[3]
    /\ out_file.lines[2][4] = Str("2015 AB")
    /\ out_file.lines[3][5] = Str("Eros")

====
